---- MODULE Spec2Model ----
(***************************************************************************)
(* Dose tracker (src/src/pages/Index.tsx): the CSV codec, the time         *)
(* utilities, the dose log and the handlers of the Index component; and    *)
(* the service worker (sw.js): its install and fetch listeners.            *)
(*                                                                         *)
(* Representation.                                                         *)
(*   - A JavaScript string is a sequence of one-character strings.         *)
(*   - null / undefined is the empty sequence Null, a present value x is   *)
(*     the one-element sequence Some(x).                                   *)
(*   - An instant is a number of milliseconds since 2024-03-01T00:00:00Z.  *)
(*     The calendar of the model is March 2024, where Europe/Paris is at   *)
(*     +01:00 throughout the readings used.                                *)
(*   - A JavaScript number that holds an amount is an integer number of    *)
(*     hundredths; Number() yields [fin |-> TRUE, val |-> hundredths] or   *)
(*     [fin |-> FALSE, val |-> 0] for NaN and the infinities.              *)
(*   - A luxon Duration is its length in milliseconds (negative allowed).  *)
(***************************************************************************)
EXTENDS Integers, Sequences, FiniteSets, TLC

Null == <<>>

Some(x) == <<x>>

(***************************************************************************)
(* Characters and numerals                                                 *)
(***************************************************************************)
DigitChars == <<"0", "1", "2", "3", "4", "5", "6", "7", "8", "9">>

DigitValues == [c \in {DigitChars[d] : d \in 1..10} |->
                  (CHOOSE d \in 1..10 : DigitChars[d] = c) - 1]

IsDigit(c) == c \in DOMAIN DigitValues

DigitVal(c) == DigitValues[c]

RECURSIVE NatToChars(_)
\* `${n}` for an integer n >= 0
NatToChars(n) ==
  IF n < 10 THEN <<DigitChars[n + 1]>>
  ELSE NatToChars(n \div 10) \o <<DigitChars[(n % 10) + 1]>>

\* `${n}` for any integer n
IntToChars(n) == IF n < 0 THEN <<"-">> \o NatToChars(0 - n) ELSE NatToChars(n)

RECURSIVE CharsToNat(_)
\* the value of a non-empty sequence of digits
CharsToNat(s) ==
  IF Len(s) = 1 THEN DigitVal(s[1])
  ELSE CharsToNat(SubSeq(s, 1, Len(s) - 1)) * 10 + DigitVal(s[Len(s)])

AllDigits(s) == \A i \in 1..Len(s) : IsDigit(s[i])

\* JavaScript white space, as far as the model's texts use it
WhiteSpace == {" ", "\t", "\r", "\n"}

RECURSIVE TrimStart(_)
TrimStart(s) ==
  IF s # <<>> /\ s[1] \in WhiteSpace THEN TrimStart(Tail(s)) ELSE s

RECURSIVE TrimEnd(_)
TrimEnd(s) ==
  IF s # <<>> /\ s[Len(s)] \in WhiteSpace THEN TrimEnd(SubSeq(s, 1, Len(s) - 1)) ELSE s

\* String.prototype.trim
Trim(s) == TrimEnd(TrimStart(s))

UpperCase == <<"T", "I", "M", "E", "S", "A", "P", "O", "U", "N">>

LowerCase == <<"t", "i", "m", "e", "s", "a", "p", "o", "u", "n">>

\* String.prototype.toLowerCase on one character (letters of the header)
LowerChar(c) ==
  IF \E k \in 1..Len(UpperCase) : UpperCase[k] = c
  THEN LowerCase[CHOOSE k \in 1..Len(UpperCase) : UpperCase[k] = c]
  ELSE c

ToLowerCase(s) == [i \in 1..Len(s) |-> LowerChar(s[i])]

\* String.prototype.startsWith
StartsWith(s, p) == Len(s) >= Len(p) /\ SubSeq(s, 1, Len(p)) = p

\* String.prototype.split(sep) for a one-character separator: the pieces
\* between consecutive separators, the ends of the string included
Split(s, sep) ==
  LET at     == {i \in 1..Len(s) : s[i] = sep}
      nth(k) == IF k = 0 THEN 0
                ELSE IF k > Cardinality(at) THEN Len(s) + 1
                ELSE CHOOSE i \in at : Cardinality({j \in at : j < i}) = k - 1
  IN  [k \in 1..(Cardinality(at) + 1) |-> SubSeq(s, nth(k - 1) + 1, nth(k) - 1)]

\* a line as split(/\r?\n/) yields it: a carriage return before the newline
\* belongs to the separator
StripCR(l) ==
  IF l # <<>> /\ l[Len(l)] = "\r" THEN SubSeq(l, 1, Len(l) - 1) ELSE l

\* String.prototype.split(/\r?\n/): the last piece keeps a trailing "\r"
SplitLines(s) ==
  LET parts == Split(s, "\n")
  IN  [i \in 1..Len(parts) |-> IF i < Len(parts) THEN StripCR(parts[i]) ELSE parts[i]]

RECURSIVE JoinWith(_, _)
\* Array.prototype.join(sep)
JoinWith(ls, sep) ==
  IF ls = <<>> THEN <<>>
  ELSE IF Len(ls) = 1 THEN ls[1]
  ELSE ls[1] \o sep \o JoinWith(Tail(ls), sep)

RECURSIVE NonEmptyOnly(_)
\* Array.prototype.filter(Boolean) on strings: the empty string is falsy
NonEmptyOnly(ls) ==
  IF ls = <<>> THEN <<>>
  ELSE IF ls[1] = <<>> THEN NonEmptyOnly(Tail(ls))
  ELSE <<ls[1]>> \o NonEmptyOnly(Tail(ls))

(***************************************************************************)
(* Time: luxon's DateTime.toISO / DateTime.fromISO on the model's calendar *)
(***************************************************************************)
\* Europe/Paris in March 2024 (before the 31st): UTC+01:00, in minutes
ParisOffsetMin == 60

\* n padded with zeros to two / three digits (luxon's padStart)
Pad2(n) == IF n < 10 THEN <<"0">> \o NatToChars(n) ELSE NatToChars(n)

Pad3(n) == IF n < 10 THEN <<"0", "0">> \o NatToChars(n)
           ELSE IF n < 100 THEN <<"0">> \o NatToChars(n) ELSE NatToChars(n)

YearMonth == <<"2", "0", "2", "4", "-", "0", "3", "-">>

ParisSuffix == <<"+", "0", "1", ":", "0", "0">>

\* nowParis(): DateTime.now().setZone(PARIS) is the instant the clock reads
nowParis(clock) == clock

\* dt.toISO({ suppressMilliseconds: true }) of a DateTime zoned to Europe/Paris:
\* the local date and time, the milliseconds only when they are not 0, the offset
toISOParis(dt) ==
  LET local == dt + ParisOffsetMin * 60000
      day   == (local \div 86400000) + 1
      inDay == local % 86400000
      hh    == inDay \div 3600000
      mm    == (inDay % 3600000) \div 60000
      ss    == (inDay % 60000) \div 1000
      ms    == inDay % 1000
  IN  YearMonth \o Pad2(day) \o <<"T">> \o Pad2(hh) \o <<":">> \o Pad2(mm)
        \o <<":">> \o Pad2(ss)
        \o (IF ms = 0 THEN <<>> ELSE <<".">> \o Pad3(ms)) \o ParisSuffix

\* the number written by the two / three digits of s from position i on
Num2(s, i) == DigitVal(s[i]) * 10 + DigitVal(s[i + 1])

Num3(s, i) == DigitVal(s[i]) * 100 + DigitVal(s[i + 1]) * 10 + DigitVal(s[i + 2])

Digits2(s, i) == IsDigit(s[i]) /\ IsDigit(s[i + 1])

\* DateTime.fromISO(s): [valid, ms]; an invalid DateTime has toMillis() = NaN.
\* Accepted: 2024-03-DDTHH:MM:SS[.mmm](+|-)HH:MM
fromISO(s) ==
  LET n   == Len(s)
      o   == n - 5
      ok  == /\ n \in {25, 29}
             /\ SubSeq(s, 1, 8) = YearMonth
             /\ Digits2(s, 9)
             /\ s[11] = "T"
             /\ Digits2(s, 12)
             /\ s[14] = ":"
             /\ Digits2(s, 15)
             /\ s[17] = ":"
             /\ Digits2(s, 18)
             /\ (n = 29 => s[20] = "." /\ Digits2(s, 21) /\ IsDigit(s[23]))
             /\ s[o] \in {"+", "-"}
             /\ Digits2(s, o + 1)
             /\ s[o + 3] = ":"
             /\ Digits2(s, o + 4)
             /\ Num2(s, 9) \in 1..31
             /\ Num2(s, 12) < 24
             /\ Num2(s, 15) < 60
             /\ Num2(s, 18) < 60
  IN  IF ~ok THEN [valid |-> FALSE, ms |-> 0]
      ELSE
        LET ms     == IF n = 29 THEN Num3(s, 21) ELSE 0
            offMin == Num2(s, o + 1) * 60 + Num2(s, o + 4)
            sign   == IF s[o] = "-" THEN 0 - 1 ELSE 1
            local  == (Num2(s, 9) - 1) * 86400000 + Num2(s, 12) * 3600000
                        + Num2(s, 15) * 60000 + Num2(s, 18) * 1000 + ms
        IN  [valid |-> TRUE, ms |-> local - sign * offMin * 60000]

\* the instant of an entry's timestamp (used where the timestamp is valid)
instant(e) == fromISO(e.tsISO).ms

(***************************************************************************)
(* Numbers: Number(string), `${number}` and Number.prototype.toFixed(1)    *)
(***************************************************************************)
InfinityChars == <<"I", "n", "f", "i", "n", "i", "t", "y">>

\* the hundredths a digit string after the decimal point stands for (its first
\* two digits; the model's texts have no third one)
FracHundredths(f) ==
  IF f = <<>> THEN 0
  ELSE IF Len(f) = 1 THEN DigitVal(f[1]) * 10
  ELSE DigitVal(f[1]) * 10 + DigitVal(f[2])

\* Number(s): white space is trimmed, the empty string is 0; a decimal literal
\* with an optional sign is its value; "Infinity" is infinite; anything else is
\* NaN.  (Exponents and 0x/0o/0b literals are not among the model's texts.)
NumberOf(s) ==
  LET t      == Trim(s)
      signed == t # <<>> /\ t[1] \in {"+", "-"}
      body   == IF signed THEN Tail(t) ELSE t
      sign   == IF signed /\ t[1] = "-" THEN 0 - 1 ELSE 1
      parts  == Split(body, ".")
      ip     == parts[1]
      fp     == IF Len(parts) = 2 THEN parts[2] ELSE <<>>
      NaN    == [fin |-> FALSE, val |-> 0]
  IN  IF t = <<>> THEN [fin |-> TRUE, val |-> 0]
      ELSE IF body = InfinityChars THEN NaN
      ELSE IF Len(parts) > 2 \/ ~AllDigits(ip) \/ ~AllDigits(fp) \/ (ip = <<>> /\ fp = <<>>)
           THEN NaN
      ELSE [fin |-> TRUE,
            val |-> sign * ((IF ip = <<>> THEN 0 ELSE CharsToNat(ip)) * 100
                            + FracHundredths(fp))]

\* `${x || ""}`: the number 0, being falsy, written as the empty string
NumberToCharsBlankZero(x) ==
  LET a == IF x < 0 THEN 0 - x ELSE x
      i == a \div 100
      f == a % 100
  IN  IF x = 0 THEN <<>>
      ELSE (IF x < 0 THEN <<"-">> ELSE <<>>) \o NatToChars(i)
             \o (IF f = 0 THEN <<>>
                 ELSE IF f % 10 = 0 THEN <<".", DigitChars[(f \div 10) + 1]>>
                 ELSE <<".">> \o Pad2(f))

\* `${x}` for a number x of hundredths: the shortest decimal that reads back
NumberToChars(x) ==
  LET a == IF x < 0 THEN 0 - x ELSE x
      i == a \div 100
      f == a % 100
  IN  (IF x < 0 THEN <<"-">> ELSE <<>>) \o NatToChars(i)
        \o (IF f = 0 THEN <<>>
            ELSE IF f % 10 = 0 THEN <<".", DigitChars[(f \div 10) + 1]>>
            ELSE <<".">> \o Pad2(f))

\* x.toFixed(1) for x >= 0: one decimal, the nearest tenth, the larger on a tie
toFixed1(x) ==
  LET tenths == (x + 5) \div 10
  IN  NatToChars(tenths \div 10) \o <<".", DigitChars[(tenths % 10) + 1]>>

(***************************************************************************)
(* Persistence codec                                                       *)
(***************************************************************************)
CSV_HEADER ==
  <<"t", "i", "m", "e", "s", "t", "a", "m", "p", ",", "a", "m", "o", "u", "n", "t">>

\* the prefix parseCSV looks for in the lower-cased first line: "timestamp,"
HeaderPrefix == SubSeq(CSV_HEADER, 1, 10)

RED_THRESHOLD_MIN == 90

\* one data line of parseCSV's loop: the entry it pushes, or nothing.
\* [ts, amt] = line.split(","): amt is undefined (Null) without a comma
ParseRow(line) ==
  LET fields == Split(line, ",")
      ts     == fields[1]
      amt    == IF Len(fields) >= 2 THEN Some(fields[2]) ELSE Null
  IN  IF ts = <<>> \/ amt = Null \/ amt = Some(<<>>) THEN <<>>
      ELSE LET amount == NumberOf(amt[1])
           IN  IF amount.fin THEN <<[tsISO |-> Trim(ts), amount |-> amount.val]>>
               ELSE <<>>

RECURSIVE ParseRows(_)
ParseRows(rows) ==
  IF rows = <<>> THEN <<>> ELSE ParseRow(rows[1]) \o ParseRows(Tail(rows))

\* the comparator with its operands exchanged (ascending)
CompareEntriesAscending(a, b) ==
  LET x == fromISO(b.tsISO)
      y == fromISO(a.tsISO)
  IN  IF x.valid /\ y.valid THEN y.ms - x.ms ELSE 0

\* the comparator of parseCSV's sort; a NaN result (an invalid timestamp) is
\* taken as +0 by Array.prototype.sort
CompareEntries(a, b) ==
  LET x == fromISO(b.tsISO)
      y == fromISO(a.tsISO)
  IN  IF x.valid /\ y.valid THEN x.ms - y.ms ELSE 0

RECURSIVE InsertEntry(_, _)
\* e placed after the last element that does not sort after it (stable)
InsertEntry(s, e) ==
  IF s = <<>> THEN <<e>>
  ELSE IF CompareEntries(s[Len(s)], e) <= 0 THEN Append(s, e)
  ELSE Append(InsertEntry(SubSeq(s, 1, Len(s) - 1), e), s[Len(s)])

RECURSIVE SortEntries(_)
\* Array.prototype.sort with CompareEntries: a stable sort
SortEntries(es) ==
  IF es = <<>> THEN <<>>
  ELSE InsertEntry(SortEntries(SubSeq(es, 1, Len(es) - 1)), es[Len(es)])

parseCSV(csv) ==
  LET lines == NonEmptyOnly(SplitLines(Trim(csv)))
  IN  IF lines = <<>> THEN <<>>
      ELSE LET hasHeader == StartsWith(ToLowerCase(lines[1]), HeaderPrefix)
               rows      == IF hasHeader THEN Tail(lines) ELSE lines
           IN  SortEntries(ParseRows(rows))

\* entriesToCSV without the header line
entriesToCSVNoHeader(es) ==
  JoinWith([i \in 1..Len(es) |->
              es[i].tsISO \o <<",">> \o NumberToChars(es[i].amount)],
           <<"\n">>)

entriesToCSV(es) ==
  JoinWith(<<CSV_HEADER>>
             \o [i \in 1..Len(es) |->
                   es[i].tsISO \o <<",">> \o NumberToChars(es[i].amount)],
           <<"\n">>)

\* slot: the value of localStorage.getItem(CSV_KEY), Null when the key is absent
loadEntries(slot) ==
  IF slot = Null \/ slot = Some(<<>>) THEN <<>> ELSE parseCSV(slot[1])

\* the slot after saveEntries(es)
saveEntries(es) == Some(entriesToCSV(es))

(***************************************************************************)
(* Derived display values                                                  *)
(***************************************************************************)
\* lastDoseDT and elapsed (useMemo): null on an empty log, otherwise
\* nowParis().diff(DateTime.fromISO(entries[0].tsISO))
elapsedOf(es, clock) ==
  IF es = <<>> THEN Null ELSE Some(nowParis(clock) - fromISO(es[1].tsISO).ms)

\* isWarning with the comparison turned into <=
isWarningOfInclusive(el) ==
  IF el = Null THEN FALSE ELSE el[1] <= RED_THRESHOLD_MIN * 60000

\* isWarning (useMemo): elapsed.as("minutes") < RED_THRESHOLD_MIN
isWarningOf(el) ==
  IF el = Null THEN FALSE ELSE el[1] < RED_THRESHOLD_MIN * 60000

\* pad of formatElapsed
pad(n) == IF n < 10 THEN <<"0">> \o IntToChars(n) ELSE IntToChars(n)

\* formatElapsed with the hours taken modulo 24
formatElapsedWrap24(d) ==
  LET hh == d \div 3600000
      mm == (d - hh * 3600000) \div 60000
      ss == (d - hh * 3600000 - mm * 60000) \div 1000
  IN  pad(hh % 24) \o <<":">> \o pad(mm) \o <<":">> \o pad(ss)

\* formatElapsed(d), d in milliseconds; \div is Math.floor of the quotient
formatElapsed(d) ==
  LET hh == d \div 3600000
      mm == (d - hh * 3600000) \div 60000
      ss == (d - hh * 3600000 - mm * 60000) \div 1000
  IN  pad(hh) \o <<":">> \o pad(mm) \o <<":">> \o pad(ss)

\* the placeholder of the last row (an em dash in the source)
Dash == <<"-", "-">>

\* intervalSincePrev(i) of the component in use (Index.tsx:226), i from 1
intervalSincePrev(es, i) ==
  IF i = Len(es) THEN Dash
  ELSE LET curr == fromISO(es[i].tsISO).ms
           prev == fromISO(es[i + 1].tsISO).ms
           d    == curr - prev
           h    == d \div 3600000
           m    == (d - h * 3600000) \div 60000
       IN  IntToChars(h) \o <<"h", " ">> \o IntToChars(m) \o <<"m">>

(***************************************************************************)
(* Bounds and inputs                                                       *)
(***************************************************************************)
\* AddDose is not taken on a log of MaxEntries records
MaxEntries == 3

\* the persisted text found at startup has at most MaxRows data lines
MaxRows == 2

\* the instant of a Paris wall time of March 2024
At(day, hh, mm, ss, ms) ==
  (day - 1) * 86400000 + hh * 3600000 + mm * 60000 + ss * 1000 + ms
    - ParisOffsetMin * 60000

\* what the wall clock may read, in any order: 10:30:00, 90 minutes later, and
\* 25 h 3 min 9.25 s later
ClockReadings == {At(2, 10, 30, 0, 0), At(2, 12, 0, 0, 0), At(3, 11, 33, 9, 250)}

\* values the slider sets, in hundredths (0.96 stands for a value off the 0.1
\* grid); the initial value is 1.0
DoseAmounts == {96}

Ts1 == toISOParis(At(2, 10, 30, 0, 0))

Ts2 == toISOParis(At(2, 12, 0, 0, 0))

\* amount fields of the persisted text found at startup
AmtFinite == {<<"1", ".", "0">>, <<"0">>}

\* data lines of the persisted text found at startup, as timestamp and amount
SlotRows ==
  {[ts |-> Ts2, amt |-> <<"1", ".", "0">>],
   [ts |-> Ts1, amt |-> <<"0">>],
   [ts |-> Ts1, amt |-> <<"1", ".", "0">>],
   [ts |-> Ts1, amt |-> <<" ">>],
   [ts |-> Ts2, amt |-> <<"a", "b", "c">>],
   [ts |-> Ts2, amt |-> <<>>],
   [ts |-> Ts1, amt |-> InfinityChars],
   [ts |-> Ts2, amt |-> <<"N", "a", "N">>]}

SeqsUpTo(S, n) == UNION {[1..k -> S] : k \in 0..n}

HeaderLines == {<<>>, <<CSV_HEADER>>, <<<<"T">> \o Tail(CSV_HEADER)>>}

NewLines == {<<"\n">>, <<"\r", "\n">>}

\* a persisted text: an optional header line, the rows, a newline convention
SlotTexts ==
  [hdr : HeaderLines, rows : SeqsUpTo(SlotRows, MaxRows), nl : NewLines]

RowLine(r) == r.ts \o <<",">> \o r.amt

SlotText(c) ==
  JoinWith(c.hdr \o [i \in 1..Len(c.rows) |-> RowLine(c.rows[i])], c.nl)

(***************************************************************************)
(* State                                                                   *)
(***************************************************************************)
VARIABLES
  entries,        \* useState entries: the in-memory dose log
  storage,        \* localStorage[CSV_KEY]: Null or Some(text)
  doseAmt,        \* useState doseAmt, in hundredths
  isAddingDose,   \* useState isAddingDose; TRUE exactly while addDose's
                  \* 1000 ms timeout is pending
  addDoseTimer,   \* that pending timeout: Null or Some(the instant it is due)
  deleteEntry,    \* useState deleteEntry: Null or Some(entry), the open dialog
  longPressTimer, \* the pending 500 ms long-press timeout: Null or Some(entry)
  now,            \* the wall clock reading of the last handler or render
  elapsed,        \* the memoised elapsed: Null or Some(milliseconds)
  isWarning,      \* the memoised isWarning
  lastOp,         \* history: the last operation that set the log
  slotRows,       \* history: the data lines of the text found in the slot, as
                  \* long as the component has not written the slot itself
  localZone,      \* the device's time zone (luxon's default zone), as its UTC
                  \* offset in minutes
  download,       \* the file the last export offered: Null or
                  \* Some([name, content])
  toastTitle,     \* the title of the toast on display: Null or Some(title)
  cache,          \* the service worker's cache "dose-tracker-v1": a set of
                  \* [url, method, status, by], by being the handler that put
                  \* the entry
  inflight,       \* requests the fetch handler has passed to the network and
                  \* whose response has not arrived
  swResponse      \* what the fetch handler last answered: Null or Some(kind)

vars ==
  <<entries, storage, doseAmt, isAddingDose, addDoseTimer, deleteEntry,
    longPressTimer, now, elapsed, isWarning, lastOp, slotRows, localZone,
    download, toastTitle, cache, inflight, swResponse>>

\* the state of the service worker, which no handler of the page touches
swVars == <<cache, inflight, swResponse>>

\* the state of the page, which no handler of the service worker touches
pageVars ==
  <<entries, storage, doseAmt, isAddingDose, addDoseTimer, deleteEntry,
    longPressTimer, now, elapsed, isWarning, lastOp, slotRows, localZone,
    download, toastTitle>>

(***************************************************************************)
(* The service worker (sw.js): install and the fetch listener              *)
(***************************************************************************)
\* self.location.origin of the model's deployment
Origin ==
  <<"h", "t", "t", "p", "s", ":", "/", "/", "a", "p", "p", ".", "e", "x",
    "a", "m", "p", "l", "e">>

\* ASSETS: the paths install caches
ASSETS ==
  <<<<"/">>,
  <<"/", "i", "n", "d", "e", "x", ".", "h", "t", "m", "l">>,
  <<"/", "m", "a", "n", "i", "f", "e", "s", "t", ".", "w", "e", "b", "m",
    "a", "n", "i", "f", "e", "s", "t">>,
  <<"/", "i", "c", "o", "n", "s", "/", "i", "c", "o", "n", "-", "1", "9",
    "2", ".", "p", "n", "g">>,
  <<"/", "i", "c", "o", "n", "s", "/", "i", "c", "o", "n", "-", "5", "1",
    "2", ".", "p", "n", "g">>>>

\* a URL of another origin that has the deployment's origin as a string prefix
PrefixUrl ==
  <<"h", "t", "t", "p", "s", ":", "/", "/", "a", "p", "p", ".", "e", "x",
    "a", "m", "p", "l", "e", ".", "e", "v", "i", "l", ".", "c", "o", "m",
    "/", "x", ".", "j", "s">>

\* a URL of a plainly different origin
CdnUrl ==
  <<"h", "t", "t", "p", "s", ":", "/", "/", "c", "d", "n", ".", "e", "x",
    "a", "m", "p", "l", "e", "/", "l", "i", "b", ".", "j", "s">>

\* a same-origin URL that is not among ASSETS
ScriptUrl == Origin \o
  <<"/", "a", "s", "s", "e", "t", "s", "/", "a", "p", "p", ".", "j", "s">>

\* the URLs of the requests the controlled page makes
Urls == {Origin \o ASSETS[1], Origin \o ASSETS[2], ScriptUrl, PrefixUrl, CdnUrl}

\* req.mode: the two documents are navigated to, the rest is fetched by them
ModeOf(url) ==
  IF url \in {Origin \o ASSETS[1], Origin \o ASSETS[2]} THEN "navigate" ELSE "cors"

\* e.request, as far as the listener reads it
Requests ==
  {[method |-> m, url |-> u, mode |-> ModeOf(u)] : m \in {"GET", "POST"}, u \in Urls}

\* response.status of the responses the network gives
Statuses == {200, 404}

\* the origin of an absolute URL: scheme, "//" and authority
OriginOf(url) ==
  LET parts == Split(url, "/")
  IN  parts[1] \o <<"/", "/">> \o parts[3]

\* caches.match(url): a cached response for a GET of this URL, if there is one
cachesMatch(url) == \E e \in cache : e.url = url

\* cache.put(req, copy): the entry of the same request is replaced
cachePut(c, e) == {x \in c : x.url # e.url \/ x.method # e.method} \cup {e}

\* the worker is registered and has not been installed
SwInit ==
  /\ cache = {}
  /\ inflight = {}
  /\ swResponse = Null

\* the install listener: cache.addAll(ASSETS) stores every asset, or nothing
\* when one of them fails to load
install(ok) ==
  /\ cache' = IF ok
              THEN {x \in cache : \A i \in 1..Len(ASSETS) : x.url # Origin \o ASSETS[i]}
                     \cup {[url |-> Origin \o ASSETS[i], method |-> "GET",
                            status |-> 200, by |-> "install"] : i \in 1..Len(ASSETS)}
              ELSE cache
  /\ UNCHANGED <<inflight, swResponse>>
  /\ UNCHANGED pageVars

\* the fetch listener up to the answer of caches.match(req): a request it
\* does not handle, a cached answer, or fetch(req)
fetchEvent(req) ==
  /\ IF req.method # "GET" \/ ~StartsWith(req.url, Origin)
     THEN swResponse' = Some("unhandled") /\ inflight' = inflight
     ELSE IF cachesMatch(req.url)
     THEN swResponse' = Some("cached") /\ inflight' = inflight
     ELSE swResponse' = swResponse /\ inflight' = inflight \cup {req}
  /\ UNCHANGED cache
  /\ UNCHANGED pageVars

\* fetch(req).then: the response is cached when its status is 200, and returned
fetchThen(req, status) ==
  /\ req \in inflight
  /\ inflight' = inflight \ {req}
  /\ cache' = IF status = 200
              THEN cachePut(cache, [url |-> req.url, method |-> req.method,
                                    status |-> status, by |-> "fetch"])
              ELSE cache
  /\ swResponse' = Some("network")
  /\ UNCHANGED pageVars

\* fetch(req).catch: the cached "/" for a navigation, an error otherwise
fetchCatch(req) ==
  /\ req \in inflight
  /\ inflight' = inflight \ {req}
  /\ swResponse' = IF req.mode = "navigate"
                   THEN (IF cachesMatch(Origin \o ASSETS[1]) THEN Some("cached")
                         ELSE Some("undefined"))
                   ELSE Some("error")
  /\ UNCHANGED cache
  /\ UNCHANGED pageVars

\* the first render: useState(() => loadEntries()), then the memos
Mount(slot, rows, clock) ==
  LET loaded == loadEntries(slot)
  IN  /\ storage = slot
      /\ slotRows = rows
      /\ entries = loaded
      /\ doseAmt = 100
      /\ isAddingDose = FALSE
      /\ addDoseTimer = Null
      /\ deleteEntry = Null
      /\ longPressTimer = Null
      /\ now = clock
      /\ elapsed = elapsedOf(loaded, clock)
      /\ isWarning = isWarningOf(elapsedOf(loaded, clock))
      /\ lastOp = "load"
      /\ download = Null
      /\ toastTitle = Null

\* the persisted text of section 6 of the specification: a header and two
\* records, newest first
ExampleSlot ==
  [hdr  |-> <<CSV_HEADER>>,
   rows |-> <<[ts |-> Ts2, amt |-> <<"1", ".", "0">>],
              [ts |-> Ts1, amt |-> <<"0", ".", "5">>]>>,
   nl   |-> <<"\n">>]

\* a first start (no slot) or a start on a slot an earlier session wrote
Init ==
  /\ localZone = ParisOffsetMin
  /\ SwInit
  /\ \E clock \in ClockReadings :
       \/ Mount(Null, <<>>, clock)
       \/ Mount(Some(SlotText(ExampleSlot)), ExampleSlot.rows, clock)

\* a start on any of the persisted texts
InitLoad ==
  /\ localZone = ParisOffsetMin
  /\ SwInit
  /\ \E clock \in ClockReadings :
       \/ Mount(Null, <<>>, clock)
       \/ \E c \in SlotTexts : Mount(Some(SlotText(c)), c.rows, clock)

\* a render that recomputes the memos lastDoseDT, elapsed, isWarning
Render(es, clock) ==
  LET el == elapsedOf(es, clock)
  IN  /\ elapsed' = el
      /\ isWarning' = isWarningOf(el)

\* the heartbeat: setTick every 1000 ms; the counter itself is only a memo
\* dependency and is not kept
Tick(clock) ==
  /\ now' = clock
  /\ Render(entries, clock)
  /\ UNCHANGED swVars
  /\ UNCHANGED <<entries, storage, doseAmt, isAddingDose, addDoseTimer,
                 deleteEntry, longPressTimer, lastOp, slotRows, localZone,
                 download, toastTitle>>

\* the slider's onValueChange
SetDoseAmt(v) ==
  /\ doseAmt' = v
  /\ UNCHANGED swVars
  /\ UNCHANGED <<entries, storage, isAddingDose, addDoseTimer, deleteEntry,
                 longPressTimer, now, elapsed, isWarning, lastOp, slotRows,
                 localZone, download, toastTitle>>

\* the entry addDose builds
newEntryOf(amt, clock) ==
  [tsISO |-> toISOParis(nowParis(clock)), amount |-> NumberOf(toFixed1(amt)).val]

\* the new entry put at the end of the log
addDoseNextAppend(es, amt, clock) == Append(es, newEntryOf(amt, clock))

\* the log addDose builds
addDoseNext(es, amt, clock) == <<newEntryOf(amt, clock)>> \o es

\* the delay of addDose's setTimeout, in milliseconds
addDoseDelay == 1000

\* a timeout that is due at once
timerDueAtOnce(clock) == clock

\* the instant the timeout set at clock is due
timerDue(clock) == clock + addDoseDelay

addDose(clock) ==
  /\ ~isAddingDose
  /\ Len(entries) < MaxEntries
  /\ isAddingDose' = TRUE
  /\ addDoseTimer' = Some(timerDue(clock))
  /\ entries' = addDoseNext(entries, doseAmt, clock)
  /\ storage' = saveEntries(entries')
  /\ now' = clock
  /\ Render(entries', clock)
  /\ lastOp' = "add"
  /\ slotRows' = <<>>
  /\ toastTitle' = Some("Dose added")
  /\ UNCHANGED swVars
  /\ UNCHANGED <<doseAmt, deleteEntry, longPressTimer, localZone, download>>

\* addDose called while isAddingDose is set: the early return
addDoseWhileAdding ==
  /\ isAddingDose
  /\ UNCHANGED vars

\* setTimeout(() => setIsAddingDose(false), 1000)
addDoseTimeout ==
  /\ isAddingDose
  /\ isAddingDose' = FALSE
  /\ addDoseTimer' = Null
  /\ UNCHANGED swVars
  /\ UNCHANGED <<entries, storage, doseAmt, deleteEntry, longPressTimer, now,
                 elapsed, isWarning, lastOp, slotRows, localZone, download,
                 toastTitle>>

\* the slot after deleteAllDoses
deleteAllSlot == Null

deleteAllDoses ==
  /\ entries' = <<>>
  /\ storage' = deleteAllSlot
  /\ Render(entries', now)
  /\ lastOp' = "deleteAll"
  /\ slotRows' = <<>>
  /\ toastTitle' = Some("All doses deleted")
  /\ UNCHANGED swVars
  /\ UNCHANGED <<doseAmt, isAddingDose, addDoseTimer, deleteEntry,
                 longPressTimer, now, localZone, download>>

RECURSIVE filterOutFirst(_, _)
\* only the first record with the timestamp removed
filterOutFirst(es, ts) ==
  IF es = <<>> THEN <<>>
  ELSE IF es[1].tsISO # ts THEN <<es[1]>> \o filterOutFirst(Tail(es), ts)
  ELSE Tail(es)

RECURSIVE filterOut(_, _)
\* entries.filter(e => e.tsISO !== ts)
filterOut(es, ts) ==
  IF es = <<>> THEN <<>>
  ELSE IF es[1].tsISO # ts THEN <<es[1]>> \o filterOut(Tail(es), ts)
  ELSE filterOut(Tail(es), ts)

\* the AlertDialogAction: deleteEntry && deleteSingleDose(deleteEntry)
deleteSingleDose(clock) ==
  /\ deleteEntry # Null
  /\ entries' = filterOut(entries, deleteEntry[1].tsISO)
  /\ storage' = saveEntries(entries')
  /\ deleteEntry' = Null
  /\ now' = clock
  /\ Render(entries', clock)
  /\ lastOp' = "delete"
  /\ slotRows' = <<>>
  /\ toastTitle' = Some("Dose deleted")
  /\ UNCHANGED swVars
  /\ UNCHANGED <<doseAmt, isAddingDose, addDoseTimer, longPressTimer, localZone,
                 download>>

\* onMouseDown / onTouchStart on the row of entries[i]; one pointer at a time
handleLongPressStart(i) ==
  /\ longPressTimer = Null
  /\ longPressTimer' = Some(entries[i])
  /\ UNCHANGED swVars
  /\ UNCHANGED <<entries, storage, doseAmt, isAddingDose, addDoseTimer,
                 deleteEntry, now, elapsed, isWarning, lastOp, slotRows,
                 localZone, download, toastTitle>>

\* onMouseUp / onMouseLeave / onTouchEnd / onTouchCancel
handleLongPressEnd ==
  /\ longPressTimer # Null
  /\ longPressTimer' = Null
  /\ UNCHANGED swVars
  /\ UNCHANGED <<entries, storage, doseAmt, isAddingDose, addDoseTimer,
                 deleteEntry, now, elapsed, isWarning, lastOp, slotRows,
                 localZone, download, toastTitle>>

\* the 500 ms timeout of handleLongPressStart fires
longPressTimeout ==
  /\ longPressTimer # Null
  /\ deleteEntry' = longPressTimer
  /\ longPressTimer' = Null
  /\ UNCHANGED swVars
  /\ UNCHANGED <<entries, storage, doseAmt, isAddingDose, addDoseTimer, now,
                 elapsed, isWarning, lastOp, slotRows, localZone, download,
                 toastTitle>>

\* the dialog's onOpenChange (Cancel, Escape)
dialogClose ==
  /\ deleteEntry # Null
  /\ deleteEntry' = Null
  /\ UNCHANGED swVars
  /\ UNCHANGED <<entries, storage, doseAmt, isAddingDose, addDoseTimer,
                 longPressTimer, now, elapsed, isWarning, lastOp, slotRows,
                 localZone, download, toastTitle>>

\* the page is loaded again: every useState starts over, timers are gone
Reload ==
  /\ entries' = loadEntries(storage)
  /\ doseAmt' = 100
  /\ isAddingDose' = FALSE
  /\ addDoseTimer' = Null
  /\ deleteEntry' = Null
  /\ longPressTimer' = Null
  /\ \E clock \in ClockReadings : now' = clock /\ Render(entries', clock)
  /\ lastOp' = "load"
  /\ toastTitle' = Null
  /\ UNCHANGED swVars
  /\ UNCHANGED <<storage, slotRows, localZone, download>>

\* dt.toFormat("yyyy-MM-dd") of a DateTime in the zone at UTC offset zone
toFormatDate(dt, zone) ==
  LET local == dt + zone * 60000
  IN  YearMonth \o Pad2((local \div 86400000) + 1)

DownloadPrefix ==
  <<"d", "o", "s", "e", "-", "t", "r", "a", "c", "k", "e", "r", "-">>

DownloadSuffix == <<".", "c", "s", "v">>

\* a.download: DateTime.now() is a DateTime in the device's zone
downloadName(clock, zone) ==
  DownloadPrefix \o toFormatDate(clock, zone) \o DownloadSuffix

\* the Export CSV button; clock is what DateTime.now() reads.  No state of the
\* component changes, so nothing is rendered again
exportToCSV(clock) ==
  /\ download' = IF entries = <<>> THEN download
                 ELSE Some([name    |-> downloadName(clock, localZone),
                            content |-> entriesToCSV(entries)])
  /\ toastTitle' = IF entries = <<>> THEN Some("No data to export")
                   ELSE Some("CSV exported")
  /\ UNCHANGED swVars
  /\ UNCHANGED <<entries, storage, doseAmt, isAddingDose, addDoseTimer,
                 deleteEntry, longPressTimer, now, elapsed, isWarning, lastOp,
                 slotRows, localZone>>

Next ==
  \/ \E clock \in ClockReadings : Tick(clock)
  \/ \E v \in DoseAmounts : SetDoseAmt(v)
  \/ \E clock \in ClockReadings : addDose(clock)
  \/ addDoseWhileAdding
  \/ addDoseTimeout
  \/ deleteAllDoses
  \/ \E clock \in ClockReadings : deleteSingleDose(clock)
  \/ \E i \in 1..Len(entries) : handleLongPressStart(i)
  \/ handleLongPressEnd
  \/ longPressTimeout
  \/ dialogClose
  \/ Reload

Spec == Init /\ [][Next]_vars

\* the codec at startup: any persisted text, then renders, restarts and resets
NextLoad ==
  \/ \E clock \in ClockReadings : Tick(clock)
  \/ Reload
  \/ deleteAllDoses

SpecLoad == InitLoad /\ [][NextLoad]_vars

\* the zones of the devices of SpecExport: Europe/Paris and America/New_York
\* (UTC-05:00 in the first days of March 2024)
DeviceZones == {ParisOffsetMin, 0 - 300}

\* clock readings of SpecExport: noon of 2 March and 02:00 of 3 March in Paris
ExportReadings == {At(2, 12, 0, 0, 0), At(3, 2, 0, 0, 0)}

InitExport ==
  /\ localZone \in DeviceZones
  /\ SwInit
  /\ \E clock \in ExportReadings :
       \/ Mount(Null, <<>>, clock)
       \/ Mount(Some(SlotText(ExampleSlot)), ExampleSlot.rows, clock)

NextExport ==
  \/ \E clock \in ExportReadings : Tick(clock)
  \/ \E clock \in ExportReadings : addDose(clock)
  \/ addDoseTimeout
  \/ deleteAllDoses
  \/ \E clock \in ExportReadings : exportToCSV(clock)

\* the export on devices in either zone, between adds and resets of the log
SpecExport == InitExport /\ [][NextExport]_vars

\* the page is loaded and stays as it is while it makes its requests
NextCache ==
  \/ \E ok \in BOOLEAN : install(ok)
  \/ \E req \in Requests : fetchEvent(req)
  \/ \E req \in Requests, status \in Statuses : fetchThen(req, status)
  \/ \E req \in Requests : fetchCatch(req)

\* a first start of the page, its worker just registered
InitCache ==
  /\ localZone = ParisOffsetMin
  /\ SwInit
  /\ Mount(Null, <<>>, At(2, 12, 0, 0, 0))

\* the service worker under the requests of a loaded page
SpecCache == InitCache /\ [][NextCache]_vars

\* the clock of SpecGuard is read at most MaxGuardSteps quarters of a second
\* after noon of 2 March
MaxGuardSteps == 9

GuardReadings == {At(2, 12, 0, 0, 0) + k * 250 : k \in 0..MaxGuardSteps}

\* a first start at noon
InitGuard ==
  /\ localZone = ParisOffsetMin
  /\ SwInit
  /\ Mount(Null, <<>>, At(2, 12, 0, 0, 0))

\* one session under a clock that never reads less than it has read before and
\* that has reached the instant a timeout is due when the timeout fires
NextGuard ==
  \/ \E clock \in GuardReadings : clock >= now /\ Tick(clock)
  \/ \E clock \in GuardReadings : clock >= now /\ addDose(clock)
  \/ addDoseWhileAdding
  \/ addDoseTimer # Null /\ now >= addDoseTimer[1] /\ addDoseTimeout
  \/ deleteAllDoses
  \/ \E clock \in GuardReadings : clock >= now /\ deleteSingleDose(clock)
  \/ \E i \in 1..Len(entries) : handleLongPressStart(i)
  \/ handleLongPressEnd
  \/ longPressTimeout
  \/ dialogClose

\* the double-click guard: a session without reloads under a running clock
SpecGuard == InitGuard /\ [][NextGuard]_vars

\* the heartbeat of SpecTimer fires at most MaxTicks times 10 min 17.25 s after
\* the newest record of the example log
MaxTicks == 150

TimerReadings ==
  {At(2, 12, 0, 0, 0) + k * 617250 : k \in 0..MaxTicks} \cup {At(3, 13, 3, 9, 0)}

InitTimer ==
  /\ localZone = ParisOffsetMin
  /\ SwInit
  /\ Mount(Some(SlotText(ExampleSlot)), ExampleSlot.rows, At(2, 12, 0, 0, 0))

NextTimer == \E clock \in TimerReadings : Tick(clock)

\* the timer display: a loaded log and the once-a-second render
SpecTimer == InitTimer /\ [][NextTimer]_vars

(***************************************************************************)
(* Properties                                                              *)
(***************************************************************************)
\* es is in descending order of parsed timestamp
SortedDescending(es) ==
  \A i \in 1..(Len(es) - 1) : instant(es[i]) >= instant(es[i + 1])

\* the k-th smallest element of a set of numbers
KthOf(S, k) == CHOOSE i \in S : Cardinality({j \in S : j < i}) = k - 1

\* C1: in every reachable state, whatever the clock read, the in-memory log is
\* sorted by parsed timestamp, newest first.
C1_LogSortedDescending == SortedDescending(entries)

\* the text is the header line followed by one line "timestamp,amount" per
\* record of es, in the order of es
IsEncodingOf(text, es) ==
  LET lines == Split(text, "\n")
  IN  /\ Len(lines) = Len(es) + 1
      /\ lines[1] = CSV_HEADER
      /\ \A i \in 1..Len(es) :
           lines[i + 1] = es[i].tsISO \o <<",">> \o NumberToChars(es[i].amount)

C3_RoundTrip ==
  SortedDescending(entries) => parseCSV(entriesToCSV(entries)) = entries

\* a loaded log of two records that share a timestamp string and have the
\* amounts 0 and 1.0, in this order
C3_Witness ==
  /\ lastOp = "load"
  /\ Len(entries) = 2
  /\ SortedDescending(entries)
  /\ entries[1].tsISO = entries[2].tsISO
  /\ entries[1].amount = 0
  /\ entries[2].amount = 100
  /\ parseCSV(entriesToCSV(entries)) = entries

\* C4: elapsed is absent on an empty log; on a non-empty log it is the clock
\* reading minus the newest record's timestamp and is never negative.
C4_ElapsedNeverNegative ==
  /\ entries = <<>> => elapsed = Null
  /\ entries # <<>> =>
       /\ elapsed # Null
       /\ elapsed[1] = now - instant(entries[1])
       /\ elapsed[1] >= 0

\* C5: the display is in the warning state exactly when the log is not empty and
\* less than 90 minutes lie between the newest record and the clock reading of
\* the render; at 90 minutes and beyond, and on an empty log, it is safe.
C5_WarningIffUnder90Minutes ==
  isWarning <=> (entries # <<>> /\ now - instant(entries[1]) < 90 * 60000)

\* a dose was added and the render at exactly 90 minutes shows the safe state
C5_Witness ==
  /\ lastOp = "add"
  /\ entries # <<>>
  /\ now - instant(entries[1]) = 90 * 60000
  /\ ~isWarning

\* C6: a single delete removes exactly the records whose timestamp string is
\* the given identity (all of them, or none) and keeps every other record,
\* unchanged and in the same relative order.
C6_DeleteRemovesExactlyMatches ==
  [][(\E clock \in ClockReadings : deleteSingleDose(clock)) =>
       LET id   == deleteEntry[1].tsISO
           kept == {i \in 1..Len(entries) : entries[i].tsISO # id}
       IN  /\ Len(entries') = Cardinality(kept)
           /\ \A k \in 1..Len(entries') : entries'[k] = entries[KthOf(kept, k)]]_vars

\* a single delete has left two records, the newer one first
C6_Witness ==
  /\ lastOp = "delete"
  /\ Len(entries) = 2
  /\ instant(entries[1]) > instant(entries[2])
  /\ deleteEntry = Null

\* C7: add dose puts one new record in front of the unchanged log: its
\* timestamp is the clock reading and its amount the slider value rounded to one
\* decimal place.
C7_AddDosePrepends ==
  [][(\E clock \in ClockReadings : addDose(clock)) =>
       /\ Len(entries') = Len(entries) + 1
       /\ Tail(entries') = entries
       /\ fromISO(entries'[1].tsISO) = [valid |-> TRUE, ms |-> now']
       /\ entries'[1].amount = ((doseAmt + 5) \div 10) * 10]_vars

\* a dose of 0.96 on the slider was added in front of two older records, with
\* the clock at 11:33:09.250 of the next day
C7_Witness ==
  /\ lastOp = "add"
  /\ Len(entries) = 3
  /\ doseAmt = 96
  /\ entries[1].amount = 100
  /\ instant(entries[1]) = now
  /\ now = At(3, 11, 33, 9, 250)
  /\ instant(entries[2]) < now

\* what an amount field of the persisted text stands for
AmtValue(amt) == IF amt = <<"0">> THEN 0 ELSE 100

RECURSIVE RowsWithFiniteAmount(_)
\* the records of the data lines whose amount field is a finite numeral
RowsWithFiniteAmount(rows) ==
  IF rows = <<>> THEN <<>>
  ELSE (IF rows[1].amt \in AmtFinite
        THEN <<[tsISO |-> rows[1].ts, amount |-> AmtValue(rows[1].amt)]>>
        ELSE <<>>) \o RowsWithFiniteAmount(Tail(rows))

CountIn(r, es) == Cardinality({i \in 1..Len(es) : es[i] = r})

SameRecords(a, b) ==
  \A r \in {a[i] : i \in 1..Len(a)} \cup {b[i] : i \in 1..Len(b)} :
    CountIn(r, a) = CountIn(r, b)

\* C8: decoding drops every data line whose amount field is not a finite
\* numeral ("abc", empty, blank, "Infinity", "NaN") and keeps every other line.
C8_DropsNonNumericAmounts ==
  (lastOp = "load" /\ slotRows # <<>>) =>
    SameRecords(entries, RowsWithFiniteAmount(slotRows))

\* C9: for every index but the last the interval shown is the non-negative
\* duration between the entry and the next older one, as "<H>h <M>m" with H its
\* whole hours and M its remaining whole minutes; the last index shows the dash.
C9_IntervalIsNonNegativeHoursMinutes ==
  \A i \in 1..Len(entries) :
    IF i = Len(entries) THEN intervalSincePrev(entries, i) = Dash
    ELSE LET D == instant(entries[i]) - instant(entries[i + 1])
         IN  /\ D >= 0
             /\ intervalSincePrev(entries, i) =
                  NatToChars(D \div 3600000) \o <<"h", " ">>
                    \o NatToChars((D % 3600000) \div 60000) \o <<"m">>

\* HH:MM:SS of T whole seconds, the hours not reduced modulo 24
ClockFace(T) ==
  Pad2(T \div 3600) \o <<":">> \o Pad2((T % 3600) \div 60) \o <<":">> \o Pad2(T % 60)

\* C10: a non-negative elapsed time of T whole seconds is shown as HH:MM:SS with
\* HH = T div 3600, MM = (T mod 3600) div 60, SS = T mod 60, each zero-padded to
\* two digits.
C10_FormatElapsedIsClockFace ==
  (elapsed # Null /\ elapsed[1] >= 0) =>
    formatElapsed(elapsed[1]) = ClockFace(elapsed[1] \div 1000)

\* 25 h 3 min 9 s after the newest record the timer shows 25:03:09
C10_Witness ==
  /\ elapsed = Some(90189000)
  /\ formatElapsed(elapsed[1]) = <<"2", "5", ":", "0", "3", ":", "0", "9">>

\* C11: an export of a non-empty log offers a file whose content is the encoding
\* of the log and whose name carries the calendar date of the clock reading in
\* Europe/Paris, whatever the zone of the device; an export of an empty log
\* offers no file and shows the notice.
C11_ExportNamedByParisDate ==
  [][\A clock \in ExportReadings :
       exportToCSV(clock) =>
         IF entries = <<>>
         THEN download' = download /\ toastTitle' = Some("No data to export")
         ELSE download' =
                Some([name    |-> DownloadPrefix \o toFormatDate(clock, ParisOffsetMin)
                                    \o DownloadSuffix,
                      content |-> entriesToCSV(entries)])]_vars

\* C12: every entry the fetch handler has put in the cache is for a GET request
\* to a URL of the application's own origin and holds a response of status 200.
C12_CacheHoldsSameOriginGet200 ==
  \A e \in cache :
    e.by = "fetch" => e.method = "GET" /\ OriginOf(e.url) = Origin /\ e.status = 200

\* C13: a step of the session that removes records from the log, or rewrites or
\* removes the persisted slot without adding a record, is the confirmation of
\* the open dialog, and removes the records that dialog asked about and no
\* other; no step removes records while no confirmation is pending.
C13_DeletesAreConfirmed ==
  [][(/\ lastOp' # "load"
      /\ \/ Len(entries') < Len(entries)
         \/ (storage' # storage /\ Len(entries') <= Len(entries)))
       => /\ deleteEntry # Null
          /\ entries' = filterOut(entries, deleteEntry[1].tsISO)]_vars

\* C14: after an add, a single delete or a delete all, loading the persisted
\* slot again gives exactly the log the session holds, the empty log after a
\* delete all included; an absent or empty slot loads as the empty log.
C14_ReloadRestoresLog ==
  /\ lastOp \in {"add", "delete", "deleteAll"} => loadEntries(storage) = entries
  /\ lastOp = "deleteAll" => entries = <<>>
  /\ loadEntries(Null) = <<>> /\ loadEntries(Some(<<>>)) = <<>>

\* C15: while the guard of an add is set (its timeout has not fired) no step
\* adds a record, and a refused add changes neither the log nor the slot; so,
\* in a session that started on an empty log under a clock that does not go
\* back, any two records of the log are at least one second apart and have
\* different timestamp strings, and an add keeps every record that was there.
C15_GuardKeepsAddsOneSecondApart ==
  /\ [](\A i, j \in 1..Len(entries) :
          i < j => /\ instant(entries[i]) - instant(entries[j]) >= 1000
                   /\ entries[i].tsISO # entries[j].tsISO)
  /\ [][isAddingDose => Len(entries') <= Len(entries)]_vars
  /\ [][addDoseWhileAdding => entries' = entries /\ storage' = storage]_vars
  /\ [][(\E clock \in GuardReadings : addDose(clock)) => Tail(entries') = entries]_vars

\* three doses were added, the last one exactly one second after the one
\* before it, and the guard of the last add is still set
C15_Witness ==
  /\ lastOp = "add"
  /\ isAddingDose
  /\ Len(entries) = 3
  /\ instant(entries[1]) - instant(entries[2]) = 1000
  /\ instant(entries[2]) - instant(entries[3]) >= 1000

====
